---- MODULE Spec2Model ----
(***************************************************************************)
(* Model of the hashtag trend tracker: trend_tracker_local.py (the local   *)
(* pipeline main -> aggregate -> compute_trend_scores -> topk_per_window)  *)
(* and reducer.py (the streaming key/total reducer).                       *)
(*                                                                         *)
(* Text is a sequence of one-character strings, so that parsing,           *)
(* formatting, splitting and lexicographic comparison are computed.        *)
(* A pandas DataFrame is the sequence of its rows, in row order.           *)
(* A float is an exact fraction <<n, d>> with d > 0; math.log is the       *)
(* natural logarithm in thousandths (LnMilli).                             *)
(***************************************************************************)
EXTENDS Integers, Sequences, FiniteSets, TLC

VARIABLES
    \* trend_tracker_local.py
    pc,          \* position of main
    cols_ok,     \* the CSV holds the expected columns
    window,      \* args.window
    topk,        \* args.topk
    df,          \* the rows read from the CSV
    agg_df,      \* aggregate's result
    walk,        \* compute_trend_scores: one entry per loop iteration
    trend_df,    \* compute_trend_scores' result
    topk_df,     \* topk_per_window's result
    written,     \* the output files written so far, in order
    err,         \* the exception that ended main, or "none"
    \* reducer.py
    lines,       \* sys.stdin, the whole input
    pos,         \* number of lines consumed
    current_hashtag,
    current_total,
    rpc,         \* position of the reducer: "loop" or "done"
    out          \* the lines printed

vars == <<pc, cols_ok, window, topk, df, agg_df, walk, trend_df, topk_df,
          written, err, lines, pos, current_hashtag, current_total, rpc, out>>

tracker_vars == <<pc, cols_ok, window, topk, df, agg_df, walk, trend_df,
                  topk_df, written, err>>

reducer_vars == <<lines, pos, current_hashtag, current_total, rpc, out>>

-----------------------------------------------------------------------------
(* Characters and text *)

Digits == <<"0", "1", "2", "3", "4", "5", "6", "7", "8", "9">>

IsDigit(c) == \E i \in 1..10 : Digits[i] = c

DigitVal(c) == (CHOOSE i \in 1..10 : Digits[i] = c) - 1

\* code point of a character (Python compares str by code point)
Ord(c) ==
    CASE c = "\t" -> 9
      [] c = " " -> 32
      [] c = "#" -> 35
      [] c = "+" -> 43
      [] c = "-" -> 45
      [] c = "." -> 46
      [] c = "/" -> 47
      [] IsDigit(c) -> 48 + DigitVal(c)
      [] c = "W" -> 87
      [] c = "a" -> 97
      [] c = "b" -> 98
      [] c = "c" -> 99
      [] c = "x" -> 120
      [] c = "z" -> 122

\* s < t for str: lexicographic by code point
RECURSIVE StrLess(_, _)
StrLess(s, t) ==
    IF t = <<>> THEN FALSE
    ELSE IF s = <<>> THEN TRUE
    ELSE IF Head(s) = Head(t) THEN StrLess(Tail(s), Tail(t))
    ELSE Ord(Head(s)) < Ord(Head(t))

IsSpace(c) == c \in {" ", "\t"}

RECURSIVE LStrip(_)
LStrip(s) == IF s # <<>> /\ IsSpace(Head(s)) THEN LStrip(Tail(s)) ELSE s

RECURSIVE RStrip(_)
RStrip(s) ==
    IF s # <<>> /\ IsSpace(s[Len(s)]) THEN RStrip(SubSeq(s, 1, Len(s) - 1)) ELSE s

\* str.strip()
Strip(s) == RStrip(LStrip(s))

\* str.split(sep): the fields between the occurrences of sep
RECURSIVE SplitFrom(_, _, _)
SplitFrom(s, sep, cur) ==
    IF s = <<>> THEN <<cur>>
    ELSE IF Head(s) = sep THEN <<cur>> \o SplitFrom(Tail(s), sep, <<>>)
    ELSE SplitFrom(Tail(s), sep, Append(cur, Head(s)))

Split(s, sep) == SplitFrom(s, sep, <<>>)

AllDigits(s) == s # <<>> /\ \A i \in 1..Len(s) : IsDigit(s[i])

RECURSIVE DigitsVal(_)
DigitsVal(s) ==
    IF s = <<>> THEN 0 ELSE 10 * DigitsVal(SubSeq(s, 1, Len(s) - 1)) + DigitVal(s[Len(s)])

\* int(s): surrounding whitespace and one sign are accepted; ok = FALSE
\* stands for the ValueError
ParseInt(s) ==
    LET t == Strip(s)
        signed == t # <<>> /\ Head(t) \in {"+", "-"}
        body == IF signed THEN Tail(t) ELSE t
    IN  IF AllDigits(body)
        THEN [ok |-> TRUE,
              v |-> IF signed /\ Head(t) = "-" THEN 0 - DigitsVal(body) ELSE DigitsVal(body)]
        ELSE [ok |-> FALSE, v |-> 0]

\* "%02d" and "%04d"
Pad2(n) == <<Digits[((n \div 10) % 10) + 1], Digits[(n % 10) + 1]>>

Pad4(n) == Pad2(n \div 100) \o Pad2(n % 100)

\* the text contains "-W"
HasWeekMarker(w) == \E i \in 1..(Len(w) - 1) : w[i] = "-" /\ w[i + 1] = "W"

-----------------------------------------------------------------------------
(* The proleptic Gregorian calendar of datetime; an instant is the ordinal *)
(* of its day (every instant of the program is a midnight).                *)

IsLeap(y) == y % 4 = 0 /\ (y % 100 # 0 \/ y % 400 = 0)

DaysInMonth(y, m) ==
    IF m = 2 THEN (IF IsLeap(y) THEN 29 ELSE 28)
    ELSE IF m \in {4, 6, 9, 11} THEN 30 ELSE 31

RECURSIVE DaysBeforeMonth(_, _)
DaysBeforeMonth(y, m) ==
    IF m <= 1 THEN 0 ELSE DaysBeforeMonth(y, m - 1) + DaysInMonth(y, m - 1)

DaysBeforeYear(y) ==
    (y - 1) * 365 + ((y - 1) \div 4) - ((y - 1) \div 100) + ((y - 1) \div 400)

ToOrdinal(y, m, d) == DaysBeforeYear(y) + DaysBeforeMonth(y, m) + d

ValidDate(y, m, d) ==
    /\ y \in 1..9999
    /\ m \in 1..12
    /\ d >= 1 /\ d <= DaysInMonth(y, m)

\* date.isoweekday(): Monday 1 .. Sunday 7
IsoWeekday(o) == ((o + 6) % 7) + 1

\* ordinal of the Monday of ISO week 1 of year y
IsoWeek1Monday(y) ==
    LET firstday == ToOrdinal(y, 1, 1)
        firstweekday == (firstday + 6) % 7
        monday == firstday - firstweekday
    IN  IF firstweekday > 3 THEN monday + 7 ELSE monday

\* date.isocalendar(): the ISO year and week of a date
IsoCalendar(y, m, d) ==
    LET today == ToOrdinal(y, m, d)
        wk == (today - IsoWeek1Monday(y)) \div 7
    IN  IF today < IsoWeek1Monday(y)
        THEN [year |-> y - 1, week |-> ((today - IsoWeek1Monday(y - 1)) \div 7) + 1]
        ELSE IF wk >= 52 /\ today >= IsoWeek1Monday(y + 1)
        THEN [year |-> y + 1, week |-> 1]
        ELSE [year |-> y, week |-> wk + 1]

\* datetime.min
DatetimeMin == ToOrdinal(1, 1, 1)

-----------------------------------------------------------------------------
(* Floats: finite values are exact fractions in lowest terms.              *)

RECURSIVE Gcd(_, _)
Gcd(a, b) == IF b = 0 THEN a ELSE Gcd(b, a % b)

Abs(a) == IF a < 0 THEN 0 - a ELSE a

\* the float n / d, d # 0
Frac(n, d) ==
    LET g == Gcd(Abs(n), Abs(d))
        sg == IF d < 0 THEN 0 - 1 ELSE 1
    IN  [k |-> "fin", n |-> (sg * n) \div g, d |-> (sg * d) \div g]

NaN == [k |-> "nan", n |-> 0, d |-> 1]

Inf == [k |-> "inf", n |-> 1, d |-> 1]

Zero == Frac(0, 1)

FloatAdd(a, b) == Frac(a.n * b.d + b.n * a.d, a.d * b.d)

\* a * b in IEEE arithmetic, for a finite a and a finite or infinite b
FloatMul(a, b) ==
    IF b.k = "fin" THEN Frac(a.n * b.n, a.d * b.d)
    ELSE IF a.n = 0 THEN NaN
    ELSE [k |-> "inf", n |-> IF (a.n < 0) = (b.n < 0) THEN 1 ELSE 0 - 1, d |-> 1]

\* a < b for finite floats
FloatLess(a, b) == a.n * b.d < b.n * a.d

\* math.log for the arguments 1..16, in thousandths
LnTable ==
    <<0, 693, 1099, 1386, 1609, 1792, 1946, 2079,
      2197, 2303, 2398, 2485, 2565, 2639, 2708, 2773>>

\* math.log(x) * 1000 for an integer x >= 1
RECURSIVE LnMilli(_)
LnMilli(x) ==
    IF x <= Len(LnTable) THEN LnTable[x] ELSE LnTable[2] + LnMilli(x \div 2)

RECURSIVE Pow10(_)
Pow10(e) == IF e = 0 THEN 1 ELSE 10 * Pow10(e - 1)

\* the float of a decimal numeral: sign, digits, optional fraction digits
\* (exponents and the inf and nan spellings are not among the inputs)
ParseFloat(s) ==
    LET t == Strip(s)
        signed == t # <<>> /\ Head(t) \in {"+", "-"}
        body == IF signed THEN Tail(t) ELSE t
        parts == Split(body, ".")
        sgn == IF signed /\ Head(t) = "-" THEN 0 - 1 ELSE 1
    IN  IF Len(parts) = 1 /\ AllDigits(parts[1])
        THEN [ok |-> TRUE, v |-> Frac(sgn * DigitsVal(parts[1]), 1)]
        ELSE IF Len(parts) = 2 /\ AllDigits(parts[1]) /\ AllDigits(parts[2])
        THEN [ok |-> TRUE,
              v |-> Frac(sgn * (DigitsVal(parts[1]) * Pow10(Len(parts[2])) + DigitsVal(parts[2])),
                         Pow10(Len(parts[2])))]
        ELSE [ok |-> FALSE, v |-> Zero]

-----------------------------------------------------------------------------
(* Sequences as DataFrames *)

\* the permutations of 1..n
Perms(n) == {p \in [1..n -> 1..n] : \A i, j \in 1..n : p[i] = p[j] => i = j}

\* sort_values on one column with the default kind="quicksort": the order
\* of rows with equal keys is unspecified, so every arrangement of s in
\* which no row precedes a row that sorts before it is an outcome.
\* before[i][j]: row i of s sorts strictly before row j
SortOutcomes(s, before) ==
    {[i \in 1..Len(s) |-> s[q[i]]] : q \in
        {p \in Perms(Len(s)) :
            \A i, j \in 1..Len(s) : i < j => ~before[p[j]][p[i]]}}

\* insertion of row index x into the sorted index list t, after every index
\* that does not sort strictly after it
RECURSIVE InsertStable(_, _, _)
InsertStable(x, t, before) ==
    IF t = <<>> THEN <<x>>
    ELSE IF before[x][Head(t)] THEN <<x>> \o t
    ELSE <<Head(t)>> \o InsertStable(x, Tail(t), before)

RECURSIVE StableOrder(_, _, _)
StableOrder(i, n, before) ==
    IF i = 0 THEN <<>> ELSE InsertStable(i, StableOrder(i - 1, n, before), before)

\* a stable sort (sort_values on several columns): rows that sort equal
\* keep their relative order
StableSort(s, before) ==
    LET o == StableOrder(Len(s), Len(s), before)
    IN  [i \in 1..Len(s) |-> s[o[i]]]

\* the elements of a set of texts, ascending
RECURSIVE SortedTexts(_)
SortedTexts(S) ==
    IF S = {} THEN <<>>
    ELSE LET m == CHOOSE x \in S : \A y \in S \ {x} : StrLess(x, y)
         IN  <<m>> \o SortedTexts(S \ {m})

Range(s) == {s[i] : i \in 1..Len(s)}

\* the sum of column f over the rows of s
RECURSIVE SumField(_, _)
SumField(s, f) == IF s = <<>> THEN 0 ELSE Head(s)[f] + SumField(Tail(s), f)

RECURSIVE Concat(_)
Concat(ss) == IF ss = <<>> THEN <<>> ELSE Head(ss) \o Concat(Tail(ss))

\* the sequences obtained by taking one element of each set of a sequence
\* of sets of sequences and concatenating them in order
RECURSIVE ConcatChoices(_)
ConcatChoices(sets) ==
    IF sets = <<>> THEN {<<>>}
    ELSE {a \o b : a \in Head(sets), b \in ConcatChoices(Tail(sets))}

\* DataFrame.head(k)
head(s, k) ==
    IF k >= 0 THEN SubSeq(s, 1, IF k < Len(s) THEN k ELSE Len(s))
    ELSE SubSeq(s, 1, Len(s) + k)

-----------------------------------------------------------------------------
(* trend_tracker_local.py: dates and window keys *)

NoDate == [ok |-> FALSE, y |-> 0, m |-> 0, d |-> 0]

\* the date of a year, a month and a day field as strptime reads them
\* (%Y: four digits; %m, %d: one or two digits; the blank-padded day that
\* %d also accepts is left out), when it is a date
FieldsDate(yf, mf, dayf) ==
    IF /\ AllDigits(yf) /\ Len(yf) = 4
       /\ AllDigits(mf) /\ Len(mf) \in 1..2
       /\ AllDigits(dayf) /\ Len(dayf) \in 1..2
       /\ ValidDate(DigitsVal(yf), DigitsVal(mf), DigitsVal(dayf))
    THEN [ok |-> TRUE, y |-> DigitsVal(yf), m |-> DigitsVal(mf), d |-> DigitsVal(dayf)]
    ELSE NoDate

\* datetime.strptime(x, "%d<sep>%m<sep>%Y")
StrptimeDMY(x, sep) ==
    LET f == Split(x, sep)
    IN  IF Len(f) = 3 THEN FieldsDate(f[3], f[2], f[1]) ELSE NoDate

\* datetime.strptime(x, "%Y-%m-%d")
StrptimeYMD(x) ==
    LET f == Split(x, "-")
    IN  IF Len(f) = 3 THEN FieldsDate(f[1], f[2], f[3]) ELSE NoDate

\* datetime.strptime(x, "%Y-%m"): the first day of the month
StrptimeYM(x) ==
    LET f == Split(x, "-")
    IN  IF Len(f) = 2 THEN FieldsDate(f[1], f[2], <<"1">>) ELSE NoDate

\* try_parse: the first of the three formats that reads x.strip();
\* ok = FALSE stands for the ValueError
try_parse(x) ==
    LET t == Strip(x)
    IN  IF StrptimeDMY(t, "-").ok THEN StrptimeDMY(t, "-")
        ELSE IF StrptimeYMD(t).ok THEN StrptimeYMD(t)
        ELSE StrptimeDMY(t, "/")

\* strftime of a date: "%Y-%m-%d", "%G-W%V", "%Y-%m"
make_window_col(dt, w) ==
    IF w = "day" THEN Pad4(dt.y) \o <<"-">> \o Pad2(dt.m) \o <<"-">> \o Pad2(dt.d)
    ELSE IF w = "week"
    THEN LET iso == IsoCalendar(dt.y, dt.m, dt.d)
         IN  Pad4(iso.year) \o <<"-", "W">> \o Pad2(iso.week)
    ELSE Pad4(dt.y) \o <<"-">> \o Pad2(dt.m)

\* pd.to_numeric(errors="coerce").fillna(0).astype(int) of a CSV field
to_int(s) == IF ParseInt(s).ok THEN ParseInt(s).v ELSE 0

\* pd.to_numeric(errors="coerce").fillna(0.0).astype(float) of a CSV field
to_float(s) == IF ParseFloat(s).ok THEN ParseFloat(s).v ELSE Zero

\* main, lines 149-154: one row with its parsed date, coerced numbers and
\* window key
preprocess_row(r, w) ==
    [hashtag |-> r.hashtag,
     mentions |-> to_int(r.mentions),
     estimated_reach |-> to_int(r.estimated_reach),
     sentiment_score |-> to_float(r.sentiment_score),
     window |-> make_window_col(try_parse(r.date), w)]

-----------------------------------------------------------------------------
(* aggregate *)

\* the rows of s whose column f is v
RowsWhere(s, f, v) == SelectSeq(s, LAMBDA r : r[f] = v)

RECURSIVE SumFloats(_)
SumFloats(s) ==
    IF s = <<>> THEN Zero ELSE FloatAdd(Head(s).sentiment_score, SumFloats(Tail(s)))

\* agg_group with the groupby on "hashtag" alone
agg_group_by_hashtag(rows, h, w) ==
    LET g == RowsWhere(rows, "hashtag", h)
    IN  [hashtag |-> h,
         window |-> w,
         mentions_sum |-> SumField(g, "mentions"),
         reach_sum |-> SumField(g, "estimated_reach"),
         sentiment_avg |-> FloatMul(SumFloats(g), Frac(1, Len(g))),
         rows_count |-> Len(g)]

\* one group of the groupby: the rows of hashtag h and window w
agg_group(rows, h, w) ==
    LET g == RowsWhere(RowsWhere(rows, "hashtag", h), "window", w)
    IN  [hashtag |-> h,
         window |-> w,
         mentions_sum |-> SumField(g, "mentions"),
         reach_sum |-> SumField(g, "estimated_reach"),
         sentiment_avg |-> FloatMul(SumFloats(g), Frac(1, Len(g))),
         rows_count |-> Len(g)]

\* the windows observed with hashtag h, ascending
WindowsOf(rows, h) ==
    SortedTexts({r.window : r \in Range(RowsWhere(rows, "hashtag", h))})

RECURSIVE agg_hashtags(_, _)
agg_hashtags(rows, hs) ==
    IF hs = <<>> THEN <<>>
    ELSE LET ws == WindowsOf(rows, Head(hs))
         IN  [i \in 1..Len(ws) |-> agg_group(rows, Head(hs), ws[i])]
             \o agg_hashtags(rows, Tail(hs))

\* aggregate(df, "window"): one row per observed (hashtag, window), in the
\* groupby's order of the keys (hashtag, then window, ascending)
aggregate(rows) ==
    agg_hashtags(rows, SortedTexts({r.hashtag : r \in Range(rows)}))

-----------------------------------------------------------------------------
(* compute_trend_scores *)

\* pd.to_datetime(w + "-1", format="%G-W%V-%u"): the Monday of ISO week V
\* of ISO year G, as pandas computes it from the 4th of January;
\* ok = FALSE stands for the exception (no match, or a year outside the
\* range of Timestamp)
WeekMonday(w) ==
    LET f == Split(w, "-")
        G == DigitsVal(f[1])
        V == DigitsVal(Tail(f[2]))
    IN  IF /\ Len(f) = 2
           /\ AllDigits(f[1]) /\ Len(f[1]) = 4
           /\ f[2] # <<>> /\ Head(f[2]) = "W"
           /\ AllDigits(Tail(f[2])) /\ Len(f[2]) \in 2..3
           /\ V \in 1..53
           /\ G \in 1678..2261
        THEN [ok |-> TRUE,
              o |-> ToOrdinal(G, 1, 1) - 1
                    + ((V * 7) + 1 - (IsoWeekday(ToOrdinal(G, 1, 4)) + 3))]
        ELSE [ok |-> FALSE, o |-> 0]

\* window_to_sortkey: the instant a window key stands for; datetime.min
\* when the key cannot be read
window_to_sortkey(w) ==
    IF Len(w) = 10
    THEN (IF StrptimeYMD(w).ok
          THEN ToOrdinal(StrptimeYMD(w).y, StrptimeYMD(w).m, StrptimeYMD(w).d)
          ELSE DatetimeMin)
    ELSE IF HasWeekMarker(w)
    THEN (IF WeekMonday(w).ok THEN WeekMonday(w).o ELSE DatetimeMin)
    ELSE IF Len(w) = 7
    THEN (IF StrptimeYM(w).ok
          THEN ToOrdinal(StrptimeYM(w).y, StrptimeYM(w).m, 1)
          ELSE DatetimeMin)
    ELSE DatetimeMin

\* prev_mentions: None, or a number
None == [some |-> FALSE, v |-> 0]

Some(v) == [some |-> TRUE, v |-> v]

\* line 93: a missing sentiment_avg counts as 0.0
sentiment_of(r) == IF r.sentiment_avg.k = "nan" THEN Zero ELSE r.sentiment_avg

\* lines 95-98: growth relative to the previous window
growth_of(mentions, prev) ==
    IF ~prev.some THEN Zero ELSE Frac(mentions - prev.v, prev.v + 1)

\* 1.0 + sentiment
one_plus(x) == IF x.k = "fin" THEN FloatAdd(Frac(1, 1), x) ELSE x

\* lines 100-105: the product, or growth alone when math.log raises or the
\* product is NaN or infinite
score_of(growth, reach, sentiment) ==
    IF reach + 1 <= 0 THEN growth
    ELSE LET p == FloatMul(FloatMul(growth, Frac(LnMilli(reach + 1), 1000)),
                           one_plus(sentiment))
         IN  IF p.k \in {"nan", "inf"} THEN growth ELSE p

\* next_prev with prev_mentions set on the first iteration only
next_prev_first(mentions, prev) == IF prev.some THEN prev ELSE Some(mentions)

\* line 115: prev_mentions after an iteration
next_prev(mentions, prev) == Some(mentions)

\* lines 90-115 for one row r of a hashtag's group
score_row(r, prev) ==
    LET raised == prev.some /\ prev.v + 1 = 0
        growth == IF raised THEN Zero ELSE growth_of(r.mentions_sum, prev)
    IN  [hashtag |-> r.hashtag,
         window |-> r.window,
         prev_mentions |-> prev,
         growth |-> growth,
         score |-> score_of(growth, r.reach_sum, sentiment_of(r)),
         mentions |-> r.mentions_sum,
         reach |-> r.reach_sum,
         sentiment |-> sentiment_of(r),
         rows_count |-> r.rows_count,
         raised |-> raised]

\* the loop over the sorted group g, entered with prev_mentions = prev
RECURSIVE score_group(_, _)
score_group(g, prev) ==
    IF g = <<>> THEN <<>>
    ELSE <<score_row(Head(g), prev)>>
         \o score_group(Tail(g), next_prev(Head(g).mentions_sum, prev))

\* g.sort_values("_sort"): row i sorts before row j
before_sortkey(g) ==
    [i \in 1..Len(g) |-> [j \in 1..Len(g) |->
        window_to_sortkey(g[i].window) < window_to_sortkey(g[j].window)]]

\* lines 84-88: the orders in which the rows of hashtag h can be walked
sorted_group(agg, h) ==
    LET g == RowsWhere(agg, "hashtag", h)
    IN  SortOutcomes(g, before_sortkey(g))

\* lines 83-115: the possible lists `rows`, one entry per iteration
compute_walks(agg) ==
    LET hs == SortedTexts({r.hashtag : r \in Range(agg)})
    IN  ConcatChoices([i \in 1..Len(hs) |->
            {score_group(g, None) : g \in sorted_group(agg, hs[i])}])

\* trend_row with mentions and reach exchanged
trend_row_swapped(e) ==
    [hashtag |-> e.hashtag, window |-> e.window, score |-> e.score,
     mentions |-> e.reach, reach |-> e.mentions, sentiment |-> e.sentiment,
     rows_count |-> e.rows_count]

\* lines 106-114: the row appended for an iteration
trend_row(e) ==
    [hashtag |-> e.hashtag, window |-> e.window, score |-> e.score,
     mentions |-> e.mentions, reach |-> e.reach, sentiment |-> e.sentiment,
     rows_count |-> e.rows_count]

\* sort_values(["window", "score"], ascending=[True, False])
before_window_score(s) ==
    [i \in 1..Len(s) |-> [j \in 1..Len(s) |->
        \/ StrLess(s[i].window, s[j].window)
        \/ s[i].window = s[j].window /\ FloatLess(s[j].score, s[i].score)]]

sort_window_score(s) == StableSort(s, before_window_score(s))

\* the outcome of compute_trend_scores for one walk w: the exception, or
\* the sorted frame
trend_outcome(w) ==
    IF \E i \in 1..Len(w) : w[i].raised
    THEN [err |-> "ZeroDivisionError", walk |-> w, rows |-> <<>>]
    ELSE IF w = <<>>
    THEN [err |-> "KeyError", walk |-> w, rows |-> <<>>]
    ELSE [err |-> "none", walk |-> w,
          rows |-> sort_window_score([i \in 1..Len(w) |-> trend_row(w[i])])]

compute_trend_scores(agg) == {trend_outcome(w) : w \in compute_walks(agg)}

-----------------------------------------------------------------------------
(* topk_per_window *)

\* before_score_desc with ascending=True
before_score_asc(g) ==
    [i \in 1..Len(g) |-> [j \in 1..Len(g) |-> FloatLess(g[i].score, g[j].score)]]

\* g.sort_values("score", ascending=False): row i sorts before row j
before_score_desc(g) ==
    [i \in 1..Len(g) |-> [j \in 1..Len(g) |-> FloatLess(g[j].score, g[i].score)]]

\* line 124: the possible top-k lists of window w
topk_of_window(trend, w, k) ==
    LET g == RowsWhere(trend, "window", w)
    IN  {head(t, k) : t \in SortOutcomes(g, before_score_desc(g))}

\* lines 122-134: the possible lists out_rows
topk_out_rows(trend, k) ==
    LET ws == SortedTexts({r.window : r \in Range(trend)})
    IN  ConcatChoices([i \in 1..Len(ws) |-> topk_of_window(trend, ws[i], k)])

\* lines 135-137: the frame of out_rows, sorted; a frame built from no rows
\* has no columns, and sorting it by "window" raises KeyError
topk_outcome(rows) ==
    IF rows = <<>> THEN [err |-> "KeyError", rows |-> <<>>]
    ELSE [err |-> "none", rows |-> sort_window_score(rows)]

topk_per_window(trend, k) == {topk_outcome(o) : o \in topk_out_rows(trend, k)}

-----------------------------------------------------------------------------
(* Bounds and inputs *)

MaxRows == 3

MaxK == 2

MaxAgg == 3

MaxLines == 3

TagA == <<"#", "a">>

TagB == <<"#", "b">>

TagC == <<"#", "c">>

\* a CSV row as read_csv delivers it: every field is text
RawRow(date, h, m, reach, sent) ==
    [date |-> date, hashtag |-> h, mentions |-> m, estimated_reach |-> reach,
     sentiment_score |-> sent]

\* the CSV rows the runs of main are built from: the three accepted date
\* formats, one date no format reads, two rows of one day, a non-numeric
\* count, a fractional and a negative sentiment
RawPool ==
    { RawRow(<<"0", "1", "-", "0", "1", "-", "2", "0", "2", "4">>, TagA, <<"1">>, <<"0">>, <<"0">>),
      RawRow(<<"2", "0", "2", "4", "-", "0", "1", "-", "0", "1">>, TagB, <<"3">>, <<"2">>, <<"1">>),
      RawRow(<<"0", "8", "/", "0", "1", "/", "2", "0", "2", "4">>, TagA, <<"2">>, <<"1">>, <<"-", "1">>),
      RawRow(<<"3", "1", "-", "1", "2", "-", "2", "0", "2", "3">>, TagB, <<"x">>, <<"3">>, <<"0", ".", "5">>),
      RawRow(<<"2", "0", "2", "4", "/", "0", "1", "/", "0", "1">>, TagA, <<"1">>, <<"1">>, <<"0">>) }

\* the sequences over S of length at most n
SeqsUpTo(S, n) == UNION {[1..k -> S] : k \in 0..n}

\* an Aggregated Window Record
AggRow(h, w, m, reach, sent, n) ==
    [hashtag |-> h, window |-> w, mentions_sum |-> m, reach_sum |-> reach,
     sentiment_avg |-> sent, rows_count |-> n]

\* the records compute_trend_scores is applied to on its own: month, day
\* and week keys of one instant, a later month, keys no format reads, a
\* reach that math.log rejects, a missing and an infinite sentiment, three
\* hashtags in one window
AggPool ==
    { AggRow(TagA, <<"2", "0", "2", "4", "-", "0", "1">>, 1, 0 - 1, Zero, 1),
      AggRow(TagA, <<"2", "0", "2", "4", "-", "0", "1", "-", "0", "1">>, 3, 2, Frac(1, 2), 2),
      AggRow(TagA, <<"2", "0", "2", "4", "-", "0", "2">>, 0, 0, Frac(1, 1), 1),
      AggRow(TagA, <<"x">>, 2, 1, NaN, 1),
      AggRow(TagB, <<"2", "0", "2", "4", "-", "0", "1">>, 2, 1, Frac(0 - 1, 1), 1),
      AggRow(TagB, <<"2", "0", "2", "4", "-", "0", "2">>, 5, 3, Inf, 1),
      AggRow(TagB, <<"z", "z">>, 1, 2, Zero, 1),
      AggRow(TagB, <<"2", "0", "2", "4", "-", "W", "0", "1">>, 0, 4, Frac(1, 2), 3),
      AggRow(TagC, <<"2", "0", "2", "4", "-", "0", "1">>, 4, 2, Zero, 1) }

\* the frames built from AggPool: at most MaxAgg rows in any row order, one
\* row per (hashtag, window)
AggInputs ==
    {s \in SeqsUpTo(AggPool, MaxAgg) : \A i, j \in 1..Len(s) : s[i] = s[j] => i = j}

\* the lines the reducer reads (without their line ends): three keys, a
\* value that is no integer, a blank line, a line of three fields, a line
\* with surrounding whitespace and a negative value
LinePool ==
    { <<"a", "\t", "1">>,
      <<"a", "\t", "2">>,
      <<"b", "\t", "3">>,
      <<"a", "\t", "x">>,
      <<" ">>,
      <<"a", "\t", "1", "\t", "2">>,
      <<"\t", "b", "\t", "-", "2", " ">> }

-----------------------------------------------------------------------------
(* main *)

TrackerIdle ==
    /\ walk = <<>>
    /\ trend_df = <<>>
    /\ topk_df = <<>>
    /\ written = <<>>
    /\ err = "none"

ReducerIdle ==
    /\ lines = <<>>
    /\ pos = 0
    /\ current_hashtag = [some |-> FALSE, v |-> <<>>]
    /\ current_total = 0
    /\ rpc = "loop"
    /\ out = <<>>

Init ==
    /\ pc = "read_csv"
    /\ cols_ok \in BOOLEAN
    /\ window \in {"day", "week", "month"}
    /\ topk \in 0..MaxK
    /\ df \in SeqsUpTo(RawPool, MaxRows)
    /\ agg_df = <<>>
    /\ TrackerIdle
    /\ ReducerIdle

\* an uncaught exception ends main
Abort(e) ==
    /\ pc' = "aborted"
    /\ err' = e

\* lines 142-147: a CSV without the expected columns ends the run
ReadCsv ==
    /\ pc = "read_csv"
    /\ IF cols_ok
       THEN pc' = "preprocess" /\ err' = err
       ELSE Abort("SystemExit")
    /\ UNCHANGED <<cols_ok, window, topk, df, agg_df, walk, trend_df, topk_df, written>>
    /\ UNCHANGED reducer_vars

\* lines 149-154: dates, numbers and the window column; a date that no
\* format reads raises ValueError
Preprocess ==
    /\ pc = "preprocess"
    /\ IF \A i \in 1..Len(df) : try_parse(df[i].date).ok
       THEN /\ df' = [i \in 1..Len(df) |-> preprocess_row(df[i], window)]
            /\ pc' = "aggregate"
            /\ err' = err
       ELSE /\ Abort("ValueError")
            /\ df' = df
    /\ UNCHANGED <<cols_ok, window, topk, agg_df, walk, trend_df, topk_df, written>>
    /\ UNCHANGED reducer_vars

\* lines 156-159: aggregate, and write the aggregated counts
AggregateStage ==
    /\ pc = "aggregate"
    /\ agg_df' = aggregate(df)
    /\ written' = Append(written, "agg_counts")
    /\ pc' = "trend"
    /\ UNCHANGED <<cols_ok, window, topk, df, walk, trend_df, topk_df, err>>
    /\ UNCHANGED reducer_vars

\* lines 161-164: score, and write the trend scores
TrendStage ==
    /\ pc = "trend"
    /\ \E o \in compute_trend_scores(agg_df) :
          /\ walk' = o.walk
          /\ IF o.err = "none"
             THEN /\ trend_df' = o.rows
                  /\ written' = Append(written, "trend_scores")
                  /\ pc' = "topk"
                  /\ err' = err
             ELSE /\ Abort(o.err)
                  /\ UNCHANGED <<trend_df, written>>
    /\ UNCHANGED <<cols_ok, window, topk, df, agg_df, topk_df>>
    /\ UNCHANGED reducer_vars

\* lines 166-173: select, and write the top-K
TopkStage ==
    /\ pc = "topk"
    /\ \E o \in topk_per_window(trend_df, topk) :
          IF o.err = "none"
          THEN /\ topk_df' = o.rows
               /\ written' = Append(written, "topk_per_window")
               /\ pc' = "done"
               /\ err' = err
          ELSE /\ Abort(o.err)
               /\ UNCHANGED <<topk_df, written>>
    /\ UNCHANGED <<cols_ok, window, topk, df, agg_df, walk, trend_df>>
    /\ UNCHANGED reducer_vars

Next ==
    \/ ReadCsv
    \/ Preprocess
    \/ AggregateStage
    \/ TrendStage
    \/ TopkStage

Spec == Init /\ [][Next]_vars

-----------------------------------------------------------------------------
(* compute_trend_scores and topk_per_window applied to any frame *)

InitFn ==
    /\ pc = "call_trend"
    /\ cols_ok = TRUE
    /\ window = "day"
    /\ topk \in 0..MaxK
    /\ df = <<>>
    /\ agg_df \in AggInputs
    /\ TrackerIdle
    /\ ReducerIdle

\* trend_df = compute_trend_scores(agg_df)
CallTrend ==
    /\ pc = "call_trend"
    /\ \E o \in compute_trend_scores(agg_df) :
          /\ walk' = o.walk
          /\ trend_df' = o.rows
          /\ err' = o.err
          /\ pc' = IF o.err = "none" THEN "call_topk" ELSE "raised_trend"
    /\ UNCHANGED <<cols_ok, window, topk, df, agg_df, topk_df, written>>
    /\ UNCHANGED reducer_vars

\* topk_df = topk_per_window(trend_df, topk)
CallTopk ==
    /\ pc = "call_topk"
    /\ \E o \in topk_per_window(trend_df, topk) :
          /\ topk_df' = o.rows
          /\ err' = o.err
          /\ pc' = IF o.err = "none" THEN "returned" ELSE "raised_topk"
    /\ UNCHANGED <<cols_ok, window, topk, df, agg_df, walk, trend_df, written>>
    /\ UNCHANGED reducer_vars

NextFn ==
    \/ CallTrend
    \/ CallTopk

SpecFn == InitFn /\ [][NextFn]_vars

-----------------------------------------------------------------------------
(* reducer.py *)

\* str(n)
RECURSIVE NatText(_)
NatText(n) ==
    IF n < 10 THEN <<Digits[n + 1]>> ELSE NatText(n \div 10) \o <<Digits[(n % 10) + 1]>>

IntText(n) == IF n < 0 THEN <<"-">> \o NatText(0 - n) ELSE NatText(n)

\* parse_line with line 22 testing len(parts) < 2: a line of three fields
\* is read as a pair
parse_line_lenient(l) ==
    LET t == Strip(l)
        parts == Split(t, "\t")
    IN  IF t = <<>> THEN [kind |-> "blank", hashtag |-> <<>>, mentions |-> 0]
        ELSE IF Len(parts) < 2 THEN [kind |-> "malformed", hashtag |-> <<>>, mentions |-> 0]
        ELSE [kind |-> "pair",
              hashtag |-> parts[1],
              mentions |-> IF ParseInt(parts[2]).ok THEN ParseInt(parts[2]).v ELSE 0]

\* lines 18-28: what the loop reads of one line: skipped (blank, or not two
\* fields), or a key and its integer value (0 when int() raises)
parse_line(l) ==
    LET t == Strip(l)
        parts == Split(t, "\t")
    IN  IF t = <<>> THEN [kind |-> "blank", hashtag |-> <<>>, mentions |-> 0]
        ELSE IF Len(parts) # 2 THEN [kind |-> "malformed", hashtag |-> <<>>, mentions |-> 0]
        ELSE [kind |-> "pair",
              hashtag |-> parts[1],
              mentions |-> IF ParseInt(parts[2]).ok THEN ParseInt(parts[2]).v ELSE 0]

\* flush(): the output after printing the current key and total, if any
flush(h, total, o) ==
    IF h.some THEN Append(o, h.v \o <<"\t">> \o IntText(total)) ELSE o

InitReducer ==
    /\ lines \in SeqsUpTo(LinePool, MaxLines)
    /\ pos = 0
    /\ current_hashtag = [some |-> FALSE, v |-> <<>>]
    /\ current_total = 0
    /\ rpc = "loop"
    /\ out = <<>>
    /\ pc = "idle"
    /\ cols_ok = TRUE
    /\ window = "day"
    /\ topk = 0
    /\ df = <<>>
    /\ agg_df = <<>>
    /\ TrackerIdle

\* lines 19-20: a blank line is skipped
SkipBlank ==
    /\ rpc = "loop" /\ pos < Len(lines)
    /\ parse_line(lines[pos + 1]).kind = "blank"
    /\ pos' = pos + 1
    /\ UNCHANGED <<lines, current_hashtag, current_total, rpc, out>>
    /\ UNCHANGED tracker_vars

\* lines 21-23: a line that is not two fields is skipped
SkipMalformed ==
    /\ rpc = "loop" /\ pos < Len(lines)
    /\ parse_line(lines[pos + 1]).kind = "malformed"
    /\ pos' = pos + 1
    /\ UNCHANGED <<lines, current_hashtag, current_total, rpc, out>>
    /\ UNCHANGED tracker_vars

\* lines 30-31: the key of the current run again
Accumulate ==
    /\ rpc = "loop" /\ pos < Len(lines)
    /\ LET p == parse_line(lines[pos + 1])
       IN  /\ p.kind = "pair"
           /\ current_hashtag = [some |-> TRUE, v |-> p.hashtag]
           /\ current_total' = current_total + p.mentions
    /\ pos' = pos + 1
    /\ UNCHANGED <<lines, current_hashtag, rpc, out>>
    /\ UNCHANGED tracker_vars

\* lines 32-36: another key: the previous run is printed, a new one starts
NewKey ==
    /\ rpc = "loop" /\ pos < Len(lines)
    /\ LET p == parse_line(lines[pos + 1])
       IN  /\ p.kind = "pair"
           /\ current_hashtag # [some |-> TRUE, v |-> p.hashtag]
           /\ out' = flush(current_hashtag, current_total, out)
           /\ current_hashtag' = [some |-> TRUE, v |-> p.hashtag]
           /\ current_total' = p.mentions
    /\ pos' = pos + 1
    /\ UNCHANGED <<lines, rpc>>
    /\ UNCHANGED tracker_vars

\* line 39: the final flush at the end of the input
FinalFlush ==
    /\ rpc = "loop" /\ pos = Len(lines)
    /\ out' = flush(current_hashtag, current_total, out)
    /\ rpc' = "done"
    /\ UNCHANGED <<lines, pos, current_hashtag, current_total>>
    /\ UNCHANGED tracker_vars

NextReducer ==
    \/ SkipBlank
    \/ SkipMalformed
    \/ Accumulate
    \/ NewKey
    \/ FinalFlush

SpecReducer == InitReducer /\ [][NextReducer]_vars

-----------------------------------------------------------------------------
(* Properties of reducer.py *)

\* a line that holds exactly one tab between two fields once stripped
ValidLine(l) ==
    /\ Strip(l) # <<>>
    /\ Cardinality({i \in 1..Len(Strip(l)) : Strip(l)[i] = "\t"}) = 1

KeyOf(l) == Split(Strip(l), "\t")[1]

ValueOf(l) ==
    LET v == Split(Strip(l), "\t")[2]
    IN  IF ParseInt(v).ok THEN ParseInt(v).v ELSE 0

\* the indices of the valid lines of ls, ascending
ValidIdx(ls) == {i \in 1..Len(ls) : ValidLine(ls[i])}

\* i starts a run: no valid line before it, or the nearest one has another key
StartsRun(ls, i) ==
    /\ i \in ValidIdx(ls)
    /\ \A j \in ValidIdx(ls) :
          (j < i /\ \A m \in ValidIdx(ls) : ~(j < m /\ m < i))
              => KeyOf(ls[j]) # KeyOf(ls[i])

\* the valid lines of the run that starts at i
RunOf(ls, i) ==
    {j \in ValidIdx(ls) :
        /\ i <= j
        /\ \A m \in ValidIdx(ls) : (i <= m /\ m <= j) => KeyOf(ls[m]) = KeyOf(ls[i])}

RECURSIVE SumValues(_, _)
SumValues(ls, I) ==
    IF I = {} THEN 0
    ELSE LET i == CHOOSE x \in I : TRUE
         IN  ValueOf(ls[i]) + SumValues(ls, I \ {i})

\* the number of run starts up to line i
RunNumber(ls, i) == Cardinality({j \in 1..i : StartsRun(ls, j)})

EmittedKey(o) == Split(o, "\t")[1]

EmittedTotal(o) == ParseInt(Split(o, "\t")[2]).v

RECURSIVE SumEmitted(_)
SumEmitted(o) == IF o = <<>> THEN 0 ELSE EmittedTotal(Head(o)) + SumEmitted(Tail(o))

\* the valid lines of key k are contiguous among the valid lines
Contiguous(ls, k) ==
    \A i, j, m \in ValidIdx(ls) :
        (i < m /\ m < j /\ KeyOf(ls[i]) = k /\ KeyOf(ls[j]) = k) => KeyOf(ls[m]) = k

\* C9: at the end of the input the reducer has printed exactly one
\* key<TAB>sum line per maximal run of consecutive valid lines of one key,
\* in the order of the runs, the sum being the total of the run's integer
\* values (a value that is no integer counts 0); blank and malformed lines
\* print nothing and end no run; the totals printed add up to the valid
\* values read; a key is printed once with its full total exactly when its
\* lines are contiguous.
C9_OneLinePerRun ==
    rpc = "done" =>
        /\ Len(out) = Cardinality({i \in 1..Len(lines) : StartsRun(lines, i)})
        /\ \A i \in 1..Len(lines) :
              StartsRun(lines, i) =>
                  /\ EmittedKey(out[RunNumber(lines, i)]) = KeyOf(lines[i])
                  /\ EmittedTotal(out[RunNumber(lines, i)])
                         = SumValues(lines, RunOf(lines, i))
                  /\ Len(Split(out[RunNumber(lines, i)], "\t")) = 2
        /\ SumEmitted(out) = SumValues(lines, ValidIdx(lines))
        /\ \A i \in ValidIdx(lines) :
              Contiguous(lines, KeyOf(lines[i]))
                  <=> \E n \in 1..Len(out) :
                        /\ EmittedKey(out[n]) = KeyOf(lines[i])
                        /\ EmittedTotal(out[n])
                               = SumValues(lines, {j \in ValidIdx(lines) :
                                                      KeyOf(lines[j]) = KeyOf(lines[i])})
                        /\ \A n2 \in 1..Len(out) :
                              EmittedKey(out[n2]) = KeyOf(lines[i]) => n2 = n

\* a run of key a continued across a skipped line, printed as one line a<TAB>3
C9_Witness ==
    /\ rpc = "done"
    /\ Len(lines) = 3
    /\ ValidLine(lines[1]) /\ ~ValidLine(lines[2]) /\ ValidLine(lines[3])
    /\ out = <<<<"a", "\t", "3">>>>

-----------------------------------------------------------------------------
(* Properties of trend_tracker_local.py *)

PairsOf(rows) == {<<rows[i].hashtag, rows[i].window>> : i \in 1..Len(rows)}

\* the indices of the rows of hashtag h and window w
IdxOf(rows, h, w) ==
    {i \in 1..Len(rows) : rows[i].hashtag = h /\ rows[i].window = w}

RECURSIVE SumAt(_, _, _)
SumAt(rows, f, I) ==
    IF I = {} THEN 0
    ELSE LET i == CHOOSE x \in I : TRUE
         IN  rows[i][f] + SumAt(rows, f, I \ {i})

AggKey(a) ==
    <<a.hashtag, a.window, a.mentions_sum, a.reach_sum, a.rows_count>>

\* aggregate has run: main is past line 156
Aggregated == pc \in {"trend", "topk", "done"} \/ (pc = "aborted" /\ written # <<>>)

\* C7: aggregate returns exactly one record per (hashtag, window) observed
\* in its input and none for another pair; its mentions_sum and reach_sum
\* are the sums of mentions and estimated_reach over exactly the input rows
\* of that pair and rows_count is their number, at least 1; the
\* mentions_sum of all records add up to the mentions of all input rows, in
\* whatever order the rows come.
C7_OneRecordPerPair ==
    Aggregated =>
        /\ Len(agg_df) = Cardinality(PairsOf(df))
        /\ PairsOf(agg_df) = PairsOf(df)
        /\ \A i \in 1..Len(agg_df) :
              LET I == IdxOf(df, agg_df[i].hashtag, agg_df[i].window)
              IN  /\ agg_df[i].mentions_sum = SumAt(df, "mentions", I)
                  /\ agg_df[i].reach_sum = SumAt(df, "estimated_reach", I)
                  /\ agg_df[i].rows_count = Cardinality(I)
                  /\ agg_df[i].rows_count >= 1
        /\ SumAt(agg_df, "mentions_sum", 1..Len(agg_df))
               = SumAt(df, "mentions", 1..Len(df))
        /\ \A q \in Perms(Len(df)) :
              {AggKey(a) : a \in Range(aggregate([i \in 1..Len(df) |-> df[q[i]]]))}
                  = {AggKey(a) : a \in Range(agg_df)}

\* two records, one of them the sum of two input rows
C7_Witness ==
    /\ Aggregated
    /\ Len(agg_df) = 2
    /\ \E i \in 1..2 : agg_df[i].rows_count = 2 /\ agg_df[i].mentions_sum > 0

\* compute_trend_scores has returned a frame
Scored == pc \in {"call_topk", "returned", "raised_topk"}

SameHashtag(i, j) == walk[i].hashtag = walk[j].hashtag

KeyAt(i) == window_to_sortkey(walk[i].window)

\* iteration i is the first of its hashtag
FirstOfHashtag(i) == i = 1 \/ ~SameHashtag(i - 1, i)

\* C5: the chronologically earliest window of a hashtag has growth 0 and
\* score 0; every other window has growth (mentions - m_prev) / (m_prev + 1)
\* with m_prev the mentions_sum of the same hashtag's immediately preceding
\* window in chronological order; prev_mentions becomes the current
\* window's mentions_sum on every iteration, fallback or not.
C5_GrowthFromPrecedingWindow ==
    Scored =>
        /\ \A i, j \in 1..Len(walk) :
              (i < j /\ SameHashtag(i, j)) =>
                  \A m \in i..j : SameHashtag(i, m)
        /\ \A i \in 1..Len(walk) :
              IF FirstOfHashtag(i)
              THEN /\ walk[i].prev_mentions = None
                   /\ walk[i].growth = Zero
                   /\ walk[i].score = Zero
                   /\ \A j \in 1..Len(walk) : SameHashtag(i, j) => KeyAt(i) <= KeyAt(j)
              ELSE /\ walk[i].prev_mentions = Some(walk[i - 1].mentions)
                   /\ walk[i].growth
                          = Frac(walk[i].mentions - walk[i - 1].mentions,
                                 walk[i - 1].mentions + 1)
                   /\ KeyAt(i - 1) <= KeyAt(i)
                   /\ \A j \in 1..Len(walk) :
                         SameHashtag(i, j) => ~(KeyAt(i - 1) < KeyAt(j) /\ KeyAt(j) < KeyAt(i))
        /\ \A a \in Range(agg_df) :
              \E i \in 1..Len(walk) :
                  /\ walk[i].hashtag = a.hashtag /\ walk[i].window = a.window
                  /\ walk[i].mentions = a.mentions_sum

\* a hashtag walked in an order that is not the frame's row order, with an
\* iteration whose score fell back to a non-zero growth followed by one
\* whose growth is taken from it
C5_Witness ==
    /\ Scored
    /\ \E i \in 1..(Len(walk) - 1) :
          /\ SameHashtag(i, i + 1)
          /\ walk[i].reach + 1 <= 0
          /\ walk[i].growth # Zero
          /\ walk[i].score = walk[i].growth
          /\ walk[i + 1].growth # Zero
          /\ KeyAt(i) < KeyAt(i + 1)
    /\ \E i, j \in 1..Len(agg_df) :
          /\ i < j /\ agg_df[i].hashtag = agg_df[j].hashtag
          /\ window_to_sortkey(agg_df[j].window) < window_to_sortkey(agg_df[i].window)

\* C8: the frame compute_trend_scores returns holds exactly one record per
\* input (hashtag, window) and none for another pair, with the input
\* record's mentions_sum, reach_sum and rows_count; it is sorted by window
\* ascending, then score descending.
C8_OneScorePerRecord ==
    Scored =>
        /\ Len(trend_df) = Len(agg_df)
        /\ PairsOf(trend_df) = PairsOf(agg_df)
        /\ \A i \in 1..Len(agg_df) :
              LET I == IdxOf(trend_df, agg_df[i].hashtag, agg_df[i].window)
              IN  /\ Cardinality(I) = 1
                  /\ \A t \in I :
                        /\ trend_df[t].mentions = agg_df[i].mentions_sum
                        /\ trend_df[t].reach = agg_df[i].reach_sum
                        /\ trend_df[t].rows_count = agg_df[i].rows_count
        /\ \A i, j \in 1..Len(trend_df) :
              i < j =>
                  \/ StrLess(trend_df[i].window, trend_df[j].window)
                  \/ /\ trend_df[i].window = trend_df[j].window
                     /\ ~FloatLess(trend_df[i].score, trend_df[j].score)

\* three records that the final sort rearranges
C8_Witness ==
    /\ Scored
    /\ Len(agg_df) = 3
    /\ trend_df # [i \in 1..Len(walk) |-> trend_row(walk[i])]
    /\ \E i \in 1..3 : trend_df[i].mentions # trend_df[i].reach

\* the records of window w in a frame
OfWindow(rows, w) == {i \in 1..Len(rows) : rows[i].window = w}

Min(a, b) == IF a < b THEN a ELSE b

\* C2: for K >= 1 topk_per_window returns, for each window w with n
\* records, exactly min(K, n) records of w, each one an input record of w,
\* none twice, and no record of w left out has a score strictly greater
\* than one kept; with n < K all n records are returned.
C2_TopKPerWindow ==
    (topk >= 1 /\ pc \in {"returned", "raised_topk"}) =>
        /\ pc = "returned"
        /\ PairsOf(topk_df) \subseteq PairsOf(trend_df)
        /\ \A r \in Range(trend_df) :
              LET w == r.window
                  kept == {topk_df[i] : i \in OfWindow(topk_df, w)}
                  all == {trend_df[i] : i \in OfWindow(trend_df, w)}
              IN  /\ Cardinality(OfWindow(topk_df, w))
                         = Min(topk, Cardinality(OfWindow(trend_df, w)))
                  /\ Cardinality(kept) = Cardinality(OfWindow(topk_df, w))
                  /\ kept \subseteq all
                  /\ \A x \in all \ kept : \A y \in kept : ~FloatLess(y.score, x.score)
                  /\ Cardinality(all) < topk => kept = all

\* K = 1, a window of two records of different scores and a window of one
C2_Witness ==
    /\ pc = "returned"
    /\ topk = 1
    /\ \E i, j \in 1..Len(trend_df) :
          /\ trend_df[i].window = trend_df[j].window
          /\ FloatLess(trend_df[j].score, trend_df[i].score)
          /\ trend_df[i] \in Range(topk_df)
          /\ trend_df[j] \notin Range(topk_df)
    /\ Len(topk_df) = 2

-----------------------------------------------------------------------------
(* Statements the code does not meet *)

AllOutputs == <<"agg_counts", "trend_scores", "topk_per_window">>

\* C1: a run of main ends with all three outputs written, or aborted with
\* none of them written.
C1_AllOrNothing ==
    /\ pc = "done" => written = AllOutputs
    /\ pc = "aborted" => written = <<>>

\* C3: topk_per_window with K = 0 on a non-empty frame completes normally
\* and returns an empty result.
C3_ZeroKIsEmpty ==
    (topk = 0 /\ pc \in {"returned", "raised_topk"} /\ trend_df # <<>>) =>
        /\ pc = "returned"
        /\ topk_df = <<>>

\* the rows of window w in frame order, stably sorted by score descending
StableByScore(rows, w) ==
    LET g == RowsWhere(rows, "window", w)
    IN  StableSort(g, before_score_desc(g))

\* the stable selection: per window ascending, the first k rows of the
\* stable order
StableTopK(rows, k) ==
    LET ws == SortedTexts({r.window : r \in Range(rows)})
    IN  Concat([i \in 1..Len(ws) |-> head(StableByScore(rows, ws[i]), k)])

\* C4: the selection is stable: among records of one window with equal
\* score, those kept and their order in the output are those that come
\* first in the input's canonical order.
C4_StableSelection ==
    pc = "returned" => topk_df = StableTopK(trend_df, topk)

\* the product of an iteration is undefined, NaN or infinite
Degenerate(e) == e.reach + 1 <= 0 \/ e.sentiment.k # "fin"

\* C6: compute_trend_scores raises for no set of records, the empty set
\* included, and a record whose product is undefined, NaN or infinite has
\* its growth as score.
C6_NeverRaises ==
    /\ pc # "raised_trend"
    /\ \A i \in 1..Len(walk) : Degenerate(walk[i]) => walk[i].score = walk[i].growth

\* C10: windows of one hashtag with equal sort keys are walked in ascending
\* order of the window-key text, so that the scores depend on the set of
\* input records alone, not on the order of the rows.
C10_TiesByWindowText ==
    Scored =>
        /\ \A i \in 1..(Len(walk) - 1) :
              (SameHashtag(i, i + 1) /\ KeyAt(i) = KeyAt(i + 1))
                  => StrLess(walk[i].window, walk[i + 1].window)
        /\ \A q \in Perms(Len(agg_df)) :
              \A o \in compute_trend_scores([i \in 1..Len(agg_df) |-> agg_df[q[i]]]) :
                  Range(o.rows) = Range(trend_df)

====
